---- MODULE Spec2Model ----
(***************************************************************************)
(* Moodle integrated channel: the content-metadata transmitter's encoding  *)
(* (transmitters/content_metadata.py) and the API client with its          *)
(* token-refresh wrapper (moodle/client.py); and two views of the REST API  *)
(* (enterprise/api/v1/views.py): license_revoke and the create of the      *)
(* pending-enterprise-learner endpoint.                                    *)
(*                                                                         *)
(* Strings that the code takes apart ('shortname' in key, key.replace,     *)
(* url + api_path) are sequences of string pieces; a Python dict is a      *)
(* sequence of [k, v] entries in insertion order.                          *)
(***************************************************************************)
EXTENDS Integers, Sequences, FiniteSets, TLC

\* ------------------------------------------------------------------ bounds
\* longest list of content-metadata items handed to the transmitter
MaxItems == 3
\* longest list of items behind a batch handed to a client operation
MaxBatch == 2
\* operations one client instance is asked to run
MaxInvocations == 2
\* tokens the vendor issues before every further exchange fails
MaxTokens == 3
\* executions of one wrapped method the model follows (the code stops at two)
CallCap == 3
MaxConcInvocations == 1

\* ------------------------------------------------------- Python dictionaries
DictHas(d, key) == \E n \in 1..Len(d) : d[n].k = key

DictGet(d, key) == d[CHOOSE n \in 1..Len(d) : d[n].k = key].v

\* d[key] = value: an existing key keeps its place, a new one goes last
DictSetAppend(d, key, value) == Append(d, [k |-> key, v |-> value])

DictSet(d, key, value) ==
    IF DictHas(d, key)
    THEN [n \in 1..Len(d) |-> IF d[n].k = key THEN [k |-> key, v |-> value] ELSE d[n]]
    ELSE Append(d, [k |-> key, v |-> value])

\* list(d): the keys in insertion order
DictKeys(d) == [n \in 1..Len(d) |-> d[n].k]

DictKeySet(d) == {d[n].k : n \in 1..Len(d)}

RECURSIVE DictUpdate(_, _)
\* d.update(e)
DictUpdate(d, e) ==
    IF e = <<>> THEN d ELSE DictUpdate(DictSet(d, Head(e).k, Head(e).v), Tail(e))

\* ------------------------------------------------------------ string pieces
\* 'piece' in key
Contains(key, piece) == \E n \in 1..Len(key) : key[n] = piece

\* key.replace(old, new)
Replace(key, old, new) == [n \in 1..Len(key) |-> IF key[n] = old THEN new ELSE key[n]]

\* ------------------------------------------------- content-metadata items
\* the exporter's items: ordered field -> value mappings with different field sets
ItemSet ==
    { <<[k |-> "shortname", v |-> "CS101"]>>,
      <<[k |-> "shortname", v |-> "CS102"], [k |-> "fullname", v |-> "Intro"]>>,
      <<[k |-> "fullname", v |-> "Algebra"]>>,
      <<>> }

RECURSIVE SeqsUpTo(_, _)
SeqsUpTo(S, n) ==
    IF n = 0 THEN {<<>>}
    ELSE LET shorter == SeqsUpTo(S, n - 1)
         IN  shorter \cup {Append(s, x) : s \in {t \in shorter : Len(t) = n - 1}, x \in S}

ItemLists == SeqsUpTo(ItemSet, MaxItems)

\* ----------------------------------------------- the transmitter's encoding
\* 'courses[{0}][{1}]'.format(index, key)
NewKeyFlat(index, key) == <<"courses[", "0", "][", key, "]">>

NewKey(index, key) == <<"courses[", ToString(index), "][", key, "]">>

RECURSIVE EncodeItem(_, _, _, _)
\* the inner loop: for key in item: items[new_key] = item[key]
EncodeItem(items, index, item, n) ==
    IF n > Len(item) THEN items
    ELSE EncodeItem(DictSet(items, NewKey(index, item[n].k), item[n].v), index, item, n + 1)

RECURSIVE EncodeLoop(_, _, _)
\* the outer loop over enumerate(channel_metadata_items); st.items is the one
\* dict object named items, st.course_list the references appended so far
EncodeLoop(st, channel_metadata_items, pos) ==
    IF pos > Len(channel_metadata_items) THEN st
    ELSE EncodeLoop(
            [items |-> EncodeItem(st.items, pos - 1, channel_metadata_items[pos], 1),
             course_list |-> Append(st.course_list, "items")],
            channel_metadata_items, pos + 1)

\* _prepare_items_for_transmission: every entry of the returned list is a
\* reference to the same dict, read when the caller looks at the list
PrepareItemsPerItem(channel_metadata_items) ==
    [n \in 1..Len(channel_metadata_items) |->
        EncodeItem(<<>>, n - 1, channel_metadata_items[n], 1)]

PrepareItemsForTransmission(channel_metadata_items) ==
    LET st == EncodeLoop([items |-> <<>>, course_list |-> <<>>], channel_metadata_items, 1)
    IN  [n \in 1..Len(st.course_list) |-> st.items]

\* ------------------------------------------------------------- the client
\* client instances; Solo are those that act in the one-instance specification
Clients == {1, 2}
Solo == {1}

\* enterprise_configuration.moodle_base_url, in pieces
BaseUrl == <<"http://moodle.example">>

MOODLE_API_PATH == "/webservice/rest/server.php"

\* a token a longer-lived store may have put in enterprise_configuration.token
SeedToken(c) == "seed" \o ToString(c)

\* the n-th token the vendor issues; every issued token is new
VendorToken(n) == "tok" \o ToString(n)

Ops == {"create_content_metadata", "update_content_metadata", "delete_content_metadata",
        "get_course_id", "create_course_completion", "delete_course_completion"}

CompletionOps == {"create_course_completion", "delete_course_completion"}

LoopOps == {"update_content_metadata", "delete_content_metadata"}

CourseKeys == {"CS101", "CS102"}

\* the dicts the transmitter builds, as handed to a client operation
Batches ==
    {EncodeLoop([items |-> <<>>, course_list |-> <<>>], l, 1).items :
        l \in SeqsUpTo(ItemSet, MaxBatch)}

\* what a wrapped method hands back to the wrapper: a requests.Response, the int
\* of get_course_id, or None; n is the position in the log of the request answered
NoValue == [type |-> "unset", n |-> 0, status |-> 0, shape |-> "", errorcode |-> "", id |-> ""]

ResponseOf(r, n) ==
    [type |-> "Response", n |-> n, status |-> r.status, shape |-> r.shape,
     errorcode |-> r.errorcode, id |-> ""]

IntValue(id) == [NoValue EXCEPT !.type = "int", !.id = id]

NoneValue == [NoValue EXCEPT !.type = "None"]

\* ---------------------------------------------------------------- the vendor
\* answers of the RPC endpoint to a POST: a JSON object with or without an
\* errorcode, a JSON array (the created courses), a body that is not JSON; or no
\* answer at all (the transport fails)
RpcAnswers ==
    { [transport |-> FALSE, status |-> 200, shape |-> "object", errorcode |-> ""],
      [transport |-> FALSE, status |-> 200, shape |-> "object", errorcode |-> "invalidtoken"],
      [transport |-> FALSE, status |-> 401, shape |-> "object", errorcode |-> "invalidtoken"],
      [transport |-> FALSE, status |-> 200, shape |-> "object", errorcode |-> "accessexception"],
      [transport |-> FALSE, status |-> 200, shape |-> "array", errorcode |-> ""],
      [transport |-> FALSE, status |-> 502, shape |-> "text", errorcode |-> ""],
      [transport |-> TRUE, status |-> 0, shape |-> "", errorcode |-> ""] }

\* answers to the GET of core_course_get_courses_by_field: courses is the list
\* of the ids of the courses in the body
LookupAnswers ==
    { [transport |-> FALSE, shape |-> "object", errorcode |-> "", has_courses |-> TRUE, courses |-> <<"7">>],
      [transport |-> FALSE, shape |-> "object", errorcode |-> "", has_courses |-> TRUE, courses |-> <<"8", "7">>],
      [transport |-> FALSE, shape |-> "object", errorcode |-> "", has_courses |-> TRUE, courses |-> <<>>],
      [transport |-> FALSE, shape |-> "object", errorcode |-> "invalidtoken", has_courses |-> FALSE, courses |-> <<>>],
      [transport |-> FALSE, shape |-> "object", errorcode |-> "accessexception", has_courses |-> FALSE, courses |-> <<>>],
      [transport |-> FALSE, shape |-> "text", errorcode |-> "", has_courses |-> FALSE, courses |-> <<>>],
      [transport |-> TRUE, shape |-> "", errorcode |-> "", has_courses |-> FALSE, courses |-> <<>>] }

\* answers of /login/token.php; issued is how many tokens the vendor has issued
TokenAnswers(issued) ==
    { [transport |-> TRUE, status |-> 0, shape |-> "", has_token |-> FALSE, token |-> ""],
      [transport |-> FALSE, status |-> 500, shape |-> "text", has_token |-> FALSE, token |-> ""],
      [transport |-> FALSE, status |-> 403, shape |-> "object", has_token |-> FALSE, token |-> ""],
      [transport |-> FALSE, status |-> 200, shape |-> "object", has_token |-> FALSE, token |-> ""],
      [transport |-> FALSE, status |-> 200, shape |-> "text", has_token |-> FALSE, token |-> ""] }
    \cup
    IF issued < MaxTokens
    THEN { [transport |-> FALSE, status |-> 200, shape |-> "object", has_token |-> TRUE,
            token |-> VendorToken(issued + 1)] }
    ELSE {}

VARIABLES
    channel_metadata_items,   \* the transmitter's input
    course_list,              \* what _prepare_items_for_transmission returned
    prepared,                 \* whether it has been called
    client,                   \* the MoodleAPIClient instances
    vendorTok,                \* tokens the vendor has issued
    revoke,                   \* a license_revoke request and the enrollments it works on
    pending                   \* a create request of the pending-enterprise-learner endpoint

encVars == <<channel_metadata_items, course_list, prepared>>

viewVars == <<revoke, pending>>

vars == <<channel_metadata_items, course_list, prepared, client, vendorTok, revoke, pending>>

\* --------------------------------------------------------- client records
NoExchange ==
    [answer |-> [transport |-> FALSE, status |-> 0, shape |-> "", has_token |-> FALSE, token |-> ""],
     ok |-> FALSE, exc |-> "", before |-> "", after |-> ""]

NoResult == [kind |-> "none", exc |-> "", value |-> NoValue, thrower |-> ""]

\* the state of a client before __init__ has run; cfg is enterprise_configuration.token
NewClient(cfg) ==
    [life |-> "new", cfg_token |-> cfg, token |-> "", stack |-> <<>>, log |-> <<>>,
     result |-> NoResult, invocations |-> 0, exchanges |-> 0, rpcs |-> 0,
     invalid_seen |-> FALSE, exchanges_at_first_rpc |-> 0,
     last_exchange |-> NoExchange, issued |-> "", superseded |-> {}]

\* one activation of the wrapper's inner(self, *args): pc is the wrapper's (or
\* the wrapped method's) position, site the line the method is called from
NewFrame(op, data, key) ==
    [op |-> op, serialized_data |-> data, key |-> key, pc |-> "ensure", site |-> "first",
     calls |-> 0, first |-> NoValue, response |-> NoValue, keys |-> <<>>, idx |-> 0,
     course_ids_to_delete |-> <<>>, refreshes |-> 0]

Top(self) == self.stack[Len(self.stack)]

SetTop(self, frame) == [self EXCEPT !.stack[Len(self.stack)] = frame]

Running(self) == self.stack # <<>> /\ Top(self).pc \notin {"returned", "raised"}

\* nothing in the client catches an exception: it unwinds every frame
RaiseIn(self, exc) ==
    [self EXCEPT !.stack = <<[self.stack[1] EXCEPT !.pc = "raised"]>>,
                 !.result = [kind |-> "raise", exc |-> exc, value |-> NoValue,
                             thrower |-> Top(self).op]]

\* ------------------------------------------------------ _get_access_token
\* the outcome of _get_access_token on the vendor's answer: raise_for_status,
\* then response.json() and data['token'] under except (KeyError, ValueError)
GetAccessTokenUncaught(r) ==
    IF r.transport THEN [ok |-> FALSE, exc |-> "ConnectionError", token |-> ""]
    ELSE IF r.status >= 400 THEN [ok |-> FALSE, exc |-> "HTTPError", token |-> ""]
    ELSE IF r.shape # "object" THEN [ok |-> FALSE, exc |-> "ValueError", token |-> ""]
    ELSE IF ~r.has_token THEN [ok |-> TRUE, exc |-> "", token |-> ""]
    ELSE [ok |-> TRUE, exc |-> "", token |-> r.token]

GetAccessToken(r) ==
    IF r.transport THEN [ok |-> FALSE, exc |-> "ConnectionError", token |-> ""]
    ELSE IF r.status >= 400 THEN [ok |-> FALSE, exc |-> "HTTPError", token |-> ""]
    ELSE IF r.shape # "object" THEN [ok |-> FALSE, exc |-> "RequestException", token |-> ""]
    ELSE IF ~r.has_token THEN [ok |-> FALSE, exc |-> "RequestException", token |-> ""]
    ELSE [ok |-> TRUE, exc |-> "", token |-> r.token]

\* a request as it is logged: what goes on the wire (verb, url, query, data) and
\* what the client knew when it sent it: the cached token, the token of the last
\* successful exchange, the tokens replaced so far, the frame and the call site;
\* answer is what came back ("" while nothing has, "transport" when the
\* transport failed, else the shape of the body); for a lookup, listed is the
\* length of the course list in the body (-1 without one) and found the id the
\* answer carries
Request(self, kind, verb, url, query, data) ==
    [kind |-> kind, verb |-> verb, url |-> url, query |-> query, data |-> data,
     cached |-> self.token, issued |-> self.issued, stale |-> self.superseded,
     depth |-> Len(self.stack),
     site |-> IF self.stack = <<>> THEN "" ELSE self.stack[Len(self.stack)].site,
     answer |-> "", listed |-> -1, found |-> ""]

\* the POST of _get_access_token
TokenRequest(self) ==
    Request(self, "token", "POST", BaseUrl \o <<"/login/token.php">>,
            <<[k |-> <<"service">>, v |-> "service_short_name"]>>,
            <<[k |-> <<"username">>, v |-> "username"], [k |-> <<"password">>, v |-> "password"]>>)

\* the client after the exchange was attempted and answered by r
Exchanged(self, r) ==
    LET out == GetAccessToken(r)
    IN  [self EXCEPT !.log = Append(@, TokenRequest(self)),
                     !.exchanges = @ + 1,
                     !.issued = IF out.ok THEN out.token ELSE @,
                     !.superseded = IF out.ok /\ self.token # "" THEN @ \cup {self.token} ELSE @,
                     !.last_exchange = [answer |-> r, ok |-> out.ok, exc |-> out.exc,
                                        before |-> self.token,
                                        after |-> IF out.ok THEN out.token ELSE self.token]]

\* self.token = self._get_access_token(), when the call returns
StoreTokenDropped(self, r) == Exchanged(self, r)

StoreToken(self, r) == [Exchanged(self, r) EXCEPT !.token = GetAccessToken(r).token]

Issued(n, r) == IF r.has_token THEN n + 1 ELSE n

\* _get_access_token raises inside the wrapper: the assignment to self.token
\* does not happen
ExchangeFailedCleared(self, r) ==
    RaiseIn([Exchanged(self, r) EXCEPT !.token = ""], GetAccessToken(r).exc)

ExchangeFailed(self, r) == RaiseIn(Exchanged(self, r), GetAccessToken(r).exc)

\* Python's truth test of a token: not self.token
FalsyAlways(value) == TRUE

Falsy(value) == value = ""

\* self.token is an attribute of the instance: an assignment to it in one
\* instance reaches the instances of TokenScope(c), the instance itself
TokenScopeClass(c) == Clients

TokenScope(c) == {c}

\* the instance c becomes self
Assign(c, self) ==
    [d \in Clients |->
        IF d = c THEN self
        ELSE IF d \in TokenScope(c) /\ self.token # client[c].token
             THEN [client[d] EXCEPT !.token = self.token]
             ELSE client[d]]

\* ------------------------------------------------------------- __init__
\* self.token = enterprise_configuration.token or self._get_access_token()
Construct(c) ==
    /\ client[c].life = "new"
    /\ \E r \in TokenAnswers(vendorTok) :
         LET self == client[c]
         IN  IF ~Falsy(self.cfg_token)
             THEN /\ client' = Assign(c,
                        [self EXCEPT !.life = "ready", !.token = self.cfg_token])
                  /\ UNCHANGED vendorTok
             ELSE /\ client' = Assign(c,
                        IF GetAccessToken(r).ok
                        THEN [StoreToken(self, r) EXCEPT !.life = "ready"]
                        ELSE [Exchanged(self, r) EXCEPT
                                !.life = "failed",
                                !.result = [kind |-> "raise", exc |-> GetAccessToken(r).exc,
                                            value |-> NoValue, thrower |-> "__init__"]])
                  /\ vendorTok' = Issued(vendorTok, r)
    /\ UNCHANGED <<encVars, viewVars>>

\* ---------------------------------------------------- the caller's request
Invocations ==
    {[op |-> op, data |-> d, key |-> ""] :
        op \in {"create_content_metadata"} \cup LoopOps, d \in Batches}
    \cup {[op |-> "get_course_id", data |-> <<>>, key |-> k] : k \in CourseKeys}
    \cup {[op |-> op, data |-> <<>>, key |-> ""] : op \in CompletionOps}

\* a caller calls one of the wrapped methods of a constructed client
Invoke(c) ==
    /\ client[c].life = "ready"
    /\ client[c].stack = <<>>
    /\ client[c].invocations < MaxInvocations
    /\ \E i \in Invocations :
         client' = Assign(c,
            [client[c] EXCEPT !.stack = <<NewFrame(i.op, i.data, i.key)>>,
                      !.invocations = @ + 1])
    /\ UNCHANGED <<vendorTok, encVars, viewVars>>

\* the caller has the response or the exception of the call it made: the
\* activation is gone, the client keeps its token
Collect(c) ==
    /\ client[c].stack # <<>>
    /\ ~Running(client[c])
    /\ client' = Assign(c,
          [client[c] EXCEPT !.stack = <<>>, !.log = <<>>, !.result = NoResult])
    /\ UNCHANGED <<vendorTok, encVars, viewVars>>

\* --------------------------------------------------- moodle_request_wrapper
\* if not self.token: self.token = self._get_access_token()
EnsureToken(c) ==
    /\ Running(client[c])
    /\ Top(client[c]).pc = "ensure"
    /\ \E r \in TokenAnswers(vendorTok) :
         LET self == client[c]
             go == [Top(self) EXCEPT !.pc = "call"]
         IN  IF ~Falsy(self.token)
             THEN /\ client' = Assign(c, SetTop(self, go))
                  /\ UNCHANGED vendorTok
             ELSE /\ client' = Assign(c,
                        IF GetAccessToken(r).ok
                        THEN SetTop(StoreToken(self, r), go)
                        ELSE ExchangeFailed(self, r))
                  /\ vendorTok' = Issued(vendorTok, r)
    /\ UNCHANGED <<encVars, viewVars>>

\* where the wrapper goes when method(self, ...) has returned: to the inspection
\* of the body after the first call, straight to return response after the second
AfterMethodLooping(site) == "inspect"

AfterMethod(site) == IF site = "first" THEN "inspect" ELSE "return"

\* response = method(self, *args, **kwargs) has returned value
MethodReturns(self, value) ==
    SetTop([self EXCEPT !.invalid_seen =
                @ \/ (value.type = "Response" /\ value.errorcode = "invalidtoken")],
           [Top(self) EXCEPT
              !.response = value,
              !.first = IF Top(self).site = "first" THEN value ELSE @,
              !.pc = AfterMethod(Top(self).site)])

\* the wrapped method starts to run
Entered(self) == SetTop(self, [Top(self) EXCEPT !.calls = @ + 1])

\* body = response.json(); error_code = body.get('errorcode');
\* if error_code and error_code == 'invalidtoken': the wrapper's next step, or
\* the exception the inspection raises
WrapperInspectAnyError(response) ==
    IF response.type # "Response" THEN "AttributeError"
    ELSE IF response.shape = "text" THEN "ValueError"
    ELSE IF response.shape = "array" THEN "AttributeError"
    ELSE IF response.errorcode # "" THEN "refresh"
    ELSE "return"

WrapperInspectStatus(response) ==
    IF response.type # "Response" THEN "AttributeError"
    ELSE IF response.shape = "text" THEN "ValueError"
    ELSE IF response.shape = "array" THEN "AttributeError"
    ELSE IF response.status >= 400 /\ response.errorcode = "invalidtoken" THEN "refresh"
    ELSE "return"

WrapperInspect(response) ==
    IF response.type # "Response" THEN "AttributeError"
    ELSE IF response.shape = "text" THEN "ValueError"
    ELSE IF response.shape = "array" THEN "AttributeError"
    ELSE IF response.errorcode # "" /\ response.errorcode = "invalidtoken" THEN "refresh"
    ELSE "return"

Inspect(c) ==
    /\ Running(client[c])
    /\ Top(client[c]).pc = "inspect"
    /\ LET self == client[c]
           next == WrapperInspect(Top(self).response)
       IN  client' = Assign(c,
              IF next \in {"refresh", "return"}
              THEN SetTop(self, [Top(self) EXCEPT !.pc = next])
              ELSE RaiseIn(self, next))
    /\ UNCHANGED <<vendorTok, encVars, viewVars>>

\* self.token = self._get_access_token(); response = method(self, ...) comes next
Refresh(c) ==
    /\ Running(client[c])
    /\ Top(client[c]).pc = "refresh"
    /\ \E r \in TokenAnswers(vendorTok) :
         LET self == client[c]
         IN  /\ client' = Assign(c,
                   IF GetAccessToken(r).ok
                   THEN SetTop(StoreToken(self, r),
                               [Top(self) EXCEPT !.pc = "call", !.site = "retry",
                                                 !.refreshes = @ + 1])
                   ELSE ExchangeFailed(self, r))
             /\ vendorTok' = Issued(vendorTok, r)
    /\ UNCHANGED <<encVars, viewVars>>

\* return response: to the caller of the operation, or into the loop of
\* update_content_metadata / delete_content_metadata that called get_course_id
Return(c) ==
    /\ Running(client[c])
    /\ Top(client[c]).pc = "return"
    /\ LET self == client[c]
           value == Top(self).response
           depth == Len(self.stack)
       IN  client' = Assign(c,
              IF depth = 1
              THEN [SetTop(self, [Top(self) EXCEPT !.pc = "returned"]) EXCEPT
                      !.result = [kind |-> "return", exc |-> "", value |-> value,
                                  thrower |-> ""]]
              ELSE LET caller == self.stack[depth - 1]
                       key == caller.keys[caller.idx]
                   IN  [self EXCEPT !.stack = Append(SubSeq(self.stack, 1, depth - 2),
                          IF caller.op = "update_content_metadata"
                          THEN [caller EXCEPT
                                  !.serialized_data =
                                      DictSet(@, Replace(key, "shortname", "id"), value.id),
                                  !.idx = @ + 1]
                          ELSE [caller EXCEPT
                                  !.course_ids_to_delete = Append(@, value.id),
                                  !.idx = @ + 1])])
    /\ UNCHANGED <<vendorTok, encVars, viewVars>>

\* ------------------------------------------------------ the wrapped methods
\* the parameters every request of _post starts from
CommonParamsConfigured(self) ==
    << [k |-> <<"wstoken">>, v |-> self.cfg_token],
       [k |-> <<"moodlewsrestformat">>, v |-> "json"] >>

CommonParams(self) ==
    << [k |-> <<"wstoken">>, v |-> self.token],
       [k |-> <<"moodlewsrestformat">>, v |-> "json"] >>

\* the request _post sends: url, api_path and the urlencoded params
PostRequest(self, url, additional_params) ==
    Request(self, "rpc", "POST", url \o <<MOODLE_API_PATH>>,
            DictUpdate(CommonParams(self), additional_params), <<>>)

\* the request get_course_id sends
LookupRequest(self, key) ==
    Request(self, "rpc", "GET", BaseUrl,
            << [k |-> <<"wstoken">>, v |-> self.token],
               [k |-> <<"wsfunction">>, v |-> "core_course_get_courses_by_field"],
               [k |-> <<"field">>, v |-> "shortname"],
               [k |-> <<"value">>, v |-> key],
               [k |-> <<"moodlewsrestformat">>, v |-> "json"] >>,
            <<>>)

\* the request leaves the client
Sent(self, request) ==
    [self EXCEPT !.log = Append(@, request),
                 !.rpcs = @ + 1,
                 !.exchanges_at_first_rpc = IF self.rpcs = 0 THEN self.exchanges ELSE @]

\* the request just sent has got its answer
Marked(self, r) ==
    [self EXCEPT !.log[Len(self.log)].answer = IF r.transport THEN "transport" ELSE r.shape]

\* the vendor answers the request just sent, or the transport fails and
\* requests.post raises
AnsweredSwallowed(self, r) ==
    MethodReturns(Marked(self, r),
                  IF r.transport THEN NoneValue ELSE ResponseOf(r, Len(self.log)))

Answered(self, r) ==
    IF r.transport
    THEN RaiseIn(Marked(self, r), "ConnectionError")
    ELSE MethodReturns(Marked(self, r), ResponseOf(r, Len(self.log)))

AtCall(self, ops) ==
    /\ Running(self)
    /\ Top(self).pc = "call"
    /\ Top(self).op \in ops
    /\ Top(self).calls < CallCap

\* create_content_metadata
CreateContentMetadata(c) ==
    /\ AtCall(client[c], {"create_content_metadata"})
    /\ \E r \in RpcAnswers :
         LET self == Entered(client[c])
             serialized_data ==
                 DictSet(Top(self).serialized_data, <<"wsfunction">>, "core_course_create_courses")
             posting == SetTop(self, [Top(self) EXCEPT !.serialized_data = serialized_data])
         IN  client' = Assign(c,
                Answered(Sent(posting, PostRequest(posting, BaseUrl, serialized_data)), r))
    /\ UNCHANGED <<vendorTok, encVars, viewVars>>

\* json.loads(response.text)['courses'][0]['id']
CourseIdOf(r) ==
    IF r.shape # "object" THEN [ok |-> FALSE, exc |-> "ValueError", id |-> ""]
    ELSE IF ~r.has_courses THEN [ok |-> FALSE, exc |-> "KeyError", id |-> ""]
    ELSE IF r.courses = <<>> THEN [ok |-> FALSE, exc |-> "IndexError", id |-> ""]
    ELSE [ok |-> TRUE, exc |-> "", id |-> r.courses[1]]

\* get_course_id
GetCourseId(c) ==
    /\ AtCall(client[c], {"get_course_id"})
    /\ \E r \in LookupAnswers :
         LET self == Entered(client[c])
             found == IF ~r.transport /\ CourseIdOf(r).ok THEN CourseIdOf(r).id ELSE ""
             listed == IF ~r.transport /\ r.shape = "object" /\ r.has_courses
                       THEN Len(r.courses) ELSE -1
             sent == Marked(Sent(self, [LookupRequest(self, Top(self).key) EXCEPT
                                           !.found = found, !.listed = listed]), r)
         IN  client' = Assign(c,
                IF r.transport THEN RaiseIn(sent, "ConnectionError")
                ELSE IF CourseIdOf(r).ok THEN MethodReturns(sent, IntValue(CourseIdOf(r).id))
                ELSE RaiseIn(sent, CourseIdOf(r).exc))
    /\ UNCHANGED <<vendorTok, encVars, viewVars>>

\* create_course_completion / delete_course_completion: pass
CourseCompletion(c) ==
    /\ AtCall(client[c], CompletionOps)
    /\ client' = Assign(c, MethodReturns(Entered(client[c]), NoneValue))
    /\ UNCHANGED <<vendorTok, encVars, viewVars>>

\* update_content_metadata / delete_content_metadata: for key in list(serialized_data)
StartLoop(c) ==
    /\ AtCall(client[c], LoopOps)
    /\ LET self == Entered(client[c])
       IN  client' = Assign(c,
              SetTop(self, [Top(self) EXCEPT
                              !.pc = "loop",
                              !.keys = DictKeys(Top(self).serialized_data),
                              !.idx = 1,
                              !.course_ids_to_delete = <<>>]))
    /\ UNCHANGED <<vendorTok, encVars, viewVars>>

InLoop(self, ops) ==
    /\ Running(self)
    /\ Top(self).pc = "loop"
    /\ Top(self).op \in ops

\* if 'shortname' in key: moodle_course_id = self.get_course_id(serialized_data[key])
LoopKey(c) ==
    /\ InLoop(client[c], LoopOps)
    /\ Top(client[c]).idx <= Len(Top(client[c]).keys)
    /\ LET self == client[c]
           frame == Top(self)
           key == frame.keys[frame.idx]
       IN  client' = Assign(c,
              IF Contains(key, "shortname")
              THEN [self EXCEPT !.stack =
                      Append(@, NewFrame("get_course_id", <<>>, DictGet(frame.serialized_data, key)))]
              ELSE SetTop(self, [frame EXCEPT !.idx = @ + 1]))
    /\ UNCHANGED <<vendorTok, encVars, viewVars>>

\* update_content_metadata after the loop
UpdatePost(c) ==
    /\ InLoop(client[c], {"update_content_metadata"})
    /\ Top(client[c]).idx > Len(Top(client[c]).keys)
    /\ \E r \in RpcAnswers :
         LET self == client[c]
             serialized_data ==
                 DictSet(Top(self).serialized_data, <<"wsfunction">>, "core_course_update_courses")
             posting == SetTop(self, [Top(self) EXCEPT !.serialized_data = serialized_data])
         IN  client' = Assign(c,
                Answered(Sent(posting, PostRequest(posting, BaseUrl, serialized_data)), r))
    /\ UNCHANGED <<vendorTok, encVars, viewVars>>

RECURSIVE UrlEncode(_)
\* urlencode(course_ids_to_delete), a list of ('courseids[]', id) pairs
UrlEncode(ids) ==
    IF ids = <<>> THEN <<>>
    ELSE <<"courseids[]=", Head(ids)>>
         \o (IF Tail(ids) = <<>> THEN <<>> ELSE <<"&">>) \o UrlEncode(Tail(ids))

\* delete_content_metadata after the loop
DeletePost(c) ==
    /\ InLoop(client[c], {"delete_content_metadata"})
    /\ Top(client[c]).idx > Len(Top(client[c]).keys)
    /\ \E r \in RpcAnswers :
         LET self == client[c]
             params == <<[k |-> <<"wsfunction">>, v |-> "core_course_delete_courses"]>>
             url == BaseUrl \o <<"?">> \o UrlEncode(Top(self).course_ids_to_delete)
         IN  client' = Assign(c,
                Answered(Sent(self, PostRequest(self, url, params)), r))
    /\ UNCHANGED <<vendorTok, encVars, viewVars>>

\* ------------------------------------------- api/v1/views.py: license_revoke
\* most licensed enrollments of the user a request works on
MaxCourses == 2

HTTP_201_CREATED == 201
HTTP_204_NO_CONTENT == 204
HTTP_400_BAD_REQUEST == 400
HTTP_403_FORBIDDEN == 403
HTTP_404_NOT_FOUND == 404
HTTP_500_INTERNAL_SERVER_ERROR == 500

\* the learner and the enterprise of the one EnterpriseCustomerUser there may be
UserIds == {"", "42"}
EnterpriseIds == {"", "ent-1"}

CourseRunId(n) == "course-v1:" \o ToString(n)

\* a LicensedEnterpriseCourseEnrollment with its EnterpriseCourseEnrollment:
\* completed is whether get_course_run_status gives COMPLETED for its course
\* run; was_revoked / was_saved are the flags as the request found them
Enrollment(n, completed, revoked, saved) ==
    [course_id |-> CourseRunId(n), completed |-> completed,
     is_revoked |-> revoked, saved_for_later |-> saved,
     was_revoked |-> revoked, was_saved |-> saved]

RECURSIVE EnrollmentLists(_)
\* the user's licensed enrollments, one per course run
EnrollmentLists(n) ==
    IF n = 0 THEN {<<>>}
    ELSE EnrollmentLists(n - 1)
         \cup {Append(l, Enrollment(n, completed, revoked, saved)) :
                 l \in {t \in EnrollmentLists(n - 1) : Len(t) = n - 1},
                 completed \in BOOLEAN, revoked \in BOOLEAN, saved \in BOOLEAN}

NoResponse == [status |-> 0, data |-> ""]

\* rest_framework's Response(data, status)
Response(data, status) == [status |-> status, data |-> data]

\* before any request: no view is running
NoRevoke ==
    [pc |-> "idle", user_id |-> "", enterprise_id |-> "", customer_user |-> FALSE,
     enrollments |-> <<>>, idx |-> 0, updated |-> {}, failed |-> "",
     validation |-> NoResponse, response |-> NoResponse]

\* a POST to license_revoke arrives; customer_user is whether the
\* EnterpriseCustomerUser of UserIds and EnterpriseIds is in the database
NewRevoke(user_id, enterprise_id, customer_user, enrollments) ==
    [NoRevoke EXCEPT !.pc = "permission", !.user_id = user_id,
                     !.enterprise_id = enterprise_id, !.customer_user = customer_user,
                     !.enrollments = enrollments]

\* @permission_required('enterprise.can_access_admin_dashboard', ...)
CheckPermission ==
    /\ revoke.pc = "permission"
    /\ \E granted \in BOOLEAN :
         revoke' = IF granted
                   THEN [revoke EXCEPT !.pc = "validate"]
                   ELSE [revoke EXCEPT !.pc = "done",
                                       !.response = Response("", HTTP_403_FORBIDDEN)]
    /\ UNCHANGED <<encVars, client, vendorTok, pending>>

\* _validate_license_revoke_data(request_data): the Response it returns, None
\* (NoResponse) when the data has both ids
ValidateLicenseRevokeData(user_id, enterprise_id) ==
    IF user_id = "" \/ enterprise_id = ""
    THEN Response("user_id and enterprise_id must be provided.", HTTP_400_BAD_REQUEST)
    ELSE NoResponse

\* self._validate_license_revoke_data(request_data): license_revoke calls it
\* as a statement, the value it returns is not looked at
ValidationDiscarded(rv, validation) ==
    [rv EXCEPT !.validation = validation, !.pc = "lookup"]

Validate ==
    /\ revoke.pc = "validate"
    /\ revoke' = ValidationDiscarded(revoke,
                    ValidateLicenseRevokeData(revoke.user_id, revoke.enterprise_id))
    /\ UNCHANGED <<encVars, client, vendorTok, pending>>

\* get_object_or_404(models.EnterpriseCustomerUser, user_id=user_id,
\* enterprise_customer=enterprise_id): no row has a null user or enterprise
GetCustomerUser ==
    /\ revoke.pc = "lookup"
    /\ revoke' = IF revoke.customer_user /\ revoke.user_id # "" /\ revoke.enterprise_id # ""
                 THEN [revoke EXCEPT !.pc = "loop", !.idx = 1]
                 ELSE [revoke EXCEPT !.pc = "done",
                                     !.response = Response("", HTTP_404_NOT_FOUND)]
    /\ UNCHANGED <<encVars, client, vendorTok, pending>>

\* lines 363-370: the licensed enrollment is revoked, the enterprise enrollment
\* saved for later
MarkRevoked(enrollment) ==
    [enrollment EXCEPT !.is_revoked = TRUE, !.saved_for_later = TRUE]

\* one pass of the loop body for the course at idx; updated says whether
\* update_course_enrollment_mode_for_user returned rather than raised
ProcessCourseUnchecked(rv, updated) ==
    [rv EXCEPT !.enrollments[rv.idx] = MarkRevoked(@),
               !.updated = IF updated THEN @ \cup {rv.enrollments[rv.idx].course_id} ELSE @,
               !.failed = IF updated THEN @ ELSE rv.enrollments[rv.idx].course_id,
               !.idx = @ + 1]

ProcessCourse(rv, updated) ==
    LET enrollment == rv.enrollments[rv.idx]
    IN  IF enrollment.completed
        THEN [rv EXCEPT !.idx = @ + 1]
        ELSE IF updated
        THEN [rv EXCEPT !.enrollments[rv.idx] = MarkRevoked(@),
                        !.updated = @ \cup {enrollment.course_id},
                        !.idx = @ + 1]
        ELSE [rv EXCEPT !.failed = enrollment.course_id,
                        !.pc = "done",
                        !.response = Response("Unable to update LMS enrollment",
                                              HTTP_500_INTERNAL_SERVER_ERROR)]

\* for course_overview in course_overviews: the body for one course
LoopCourse ==
    /\ revoke.pc = "loop"
    /\ revoke.idx <= Len(revoke.enrollments)
    /\ \E updated \in BOOLEAN : revoke' = ProcessCourse(revoke, updated)
    /\ UNCHANGED <<encVars, client, vendorTok, pending>>

\* return Response(status=status.HTTP_204_NO_CONTENT)
RevokeDone ==
    /\ revoke.pc = "loop"
    /\ revoke.idx > Len(revoke.enrollments)
    /\ revoke' = [revoke EXCEPT !.pc = "done", !.response = Response("", HTTP_204_NO_CONTENT)]
    /\ UNCHANGED <<encVars, client, vendorTok, pending>>

\* ---------------------- api/v1/views.py: PendingEnterpriseCustomerUserViewSet
\* longest list of errors the serializer reports for one key
MaxErrors == 3

\* an ErrorDetail: its code and its text
ErrorDetail(code, string) == [code |-> code, string |-> string]

\* errors of the fields of PendingEnterpriseCustomerUserSerializer
UserEmailErrors ==
    { ErrorDetail("unique", "pending enterprise customer user with this user email already exists."),
      ErrorDetail("invalid", "Enter a valid email address."),
      ErrorDetail("blank", "This field may not be blank.") }

EnterpriseCustomerErrors == { ErrorDetail("does_not_exist", "Invalid pk - object does not exist.") }

\* errors of the serializer's validate(), raised once every field is valid
NonFieldErrors ==
    { ErrorDetail("invalid", "EnterpriseCustomerUser record already exists"),
      ErrorDetail("invalid", "Enterprise customer is not active") }

NonEmptySeqs(S, n) == SeqsUpTo(S, n) \ {<<>>}

\* serializer.errors after is_valid has failed: errors of fields (the
\* serializer stops at them), or else the non-field errors
SerializerErrors ==
    { <<[k |-> "user_email", v |-> e]>> : e \in NonEmptySeqs(UserEmailErrors, MaxErrors) }
    \cup { <<[k |-> "enterprise_customer", v |-> c]>> :
              c \in NonEmptySeqs(EnterpriseCustomerErrors, 1) }
    \cup { <<[k |-> "enterprise_customer", v |-> c], [k |-> "user_email", v |-> e]>> :
              c \in NonEmptySeqs(EnterpriseCustomerErrors, 1),
              e \in NonEmptySeqs(UserEmailErrors, MaxErrors) }
    \cup { <<[k |-> "non_field_errors", v |-> e]>> : e \in NonEmptySeqs(NonFieldErrors, MaxErrors) }

NoPending ==
    [pc |-> "idle", valid |-> FALSE, errors |-> <<>>, created |-> FALSE,
     return_status |-> 0, raised |-> FALSE, response |-> NoResponse]

\* a POST to the endpoint: serializer = self.get_serializer(data=request.data)
NewPending == [NoPending EXCEPT !.pc = "is_valid"]

\* serializer.is_valid(raise_exception=True)
IsValid ==
    /\ pending.pc = "is_valid"
    /\ \E valid \in BOOLEAN, errors \in SerializerErrors :
         pending' = IF valid
                    THEN [pending EXCEPT !.pc = "else", !.valid = TRUE]
                    ELSE [pending EXCEPT !.pc = "except", !.errors = errors]
    /\ UNCHANGED <<encVars, client, vendorTok, revoke>>

\* lines 419-431: the status for a failed validation, 0 for None
ReturnStatusAnyEmailError(errors) ==
    IF DictHas(errors, "user_email") THEN HTTP_204_NO_CONTENT
    ELSE IF DictHas(errors, "non_field_errors")
    THEN IF \E n \in 1..Len(DictGet(errors, "non_field_errors")) :
               DictGet(errors, "non_field_errors")[n].string
                 = "EnterpriseCustomerUser record already exists"
         THEN HTTP_204_NO_CONTENT ELSE 0
    ELSE 0

ReturnStatus(errors) ==
    IF DictHas(errors, "user_email")
    THEN IF \E n \in 1..Len(DictGet(errors, "user_email")) :
               DictGet(errors, "user_email")[n].code = "unique"
         THEN HTTP_204_NO_CONTENT ELSE 0
    ELSE IF DictHas(errors, "non_field_errors")
    THEN IF \E n \in 1..Len(DictGet(errors, "non_field_errors")) :
               DictGet(errors, "non_field_errors")[n].string
                 = "EnterpriseCustomerUser record already exists"
         THEN HTTP_204_NO_CONTENT ELSE 0
    ELSE 0

\* except ValidationError as validation_error: ... if not return_status: raise
HandleValidationError ==
    /\ pending.pc = "except"
    /\ LET return_status == ReturnStatus(pending.errors)
       IN  pending' = IF return_status = 0
                      THEN [pending EXCEPT !.pc = "done", !.raised = TRUE]
                      ELSE [pending EXCEPT !.pc = "done", !.return_status = return_status,
                                           !.response = Response("serializer.data", return_status)]
    /\ UNCHANGED <<encVars, client, vendorTok, revoke>>

\* else: created = serializer.save(); 201 if created else 204
Save ==
    /\ pending.pc = "else"
    /\ \E created \in BOOLEAN :
         LET return_status == IF created THEN HTTP_201_CREATED ELSE HTTP_204_NO_CONTENT
         IN  pending' = [pending EXCEPT !.pc = "done", !.created = created,
                                        !.return_status = return_status,
                                        !.response = Response("serializer.data", return_status)]
    /\ UNCHANGED <<encVars, client, vendorTok, revoke>>

\* ------------------------------------------------------- the specification
Init ==
    /\ channel_metadata_items = <<>>
    /\ course_list = <<>>
    /\ prepared = FALSE
    /\ client \in {[c \in Clients |-> NewClient(IF c \in seeded THEN SeedToken(c) ELSE "")] :
                     seeded \in SUBSET Solo}
    /\ vendorTok = 0
    /\ revoke = NoRevoke
    /\ pending = NoPending

Next ==
    \E c \in Solo :
        \/ Construct(c)
        \/ Invoke(c)
        \/ EnsureToken(c)
        \/ CreateContentMetadata(c)
        \/ GetCourseId(c)
        \/ CourseCompletion(c)
        \/ StartLoop(c)
        \/ LoopKey(c)
        \/ UpdatePost(c)
        \/ DeletePost(c)
        \/ Inspect(c)
        \/ Refresh(c)
        \/ Return(c)
        \/ Collect(c)

Spec == Init /\ [][Next]_vars

\* ------------------------------------------- the transmitter's specification
EncInit ==
    /\ channel_metadata_items \in ItemLists
    /\ course_list = <<>>
    /\ prepared = FALSE
    /\ client = [c \in Clients |-> NewClient("")]
    /\ vendorTok = 0
    /\ revoke = NoRevoke
    /\ pending = NoPending

Prepare ==
    /\ ~prepared
    /\ course_list' = PrepareItemsForTransmission(channel_metadata_items)
    /\ prepared' = TRUE
    /\ UNCHANGED <<channel_metadata_items, client, vendorTok, viewVars>>

EncNext == Prepare

SpecEncode == EncInit /\ [][EncNext]_vars

\* ------------------------------------ two instances running concurrently
\* each instance is driven by its own thread; a step of the wrapper or of a
\* wrapped method of one instance interleaves with the steps of the other
ConcInit ==
    /\ channel_metadata_items = <<>>
    /\ course_list = <<>>
    /\ prepared = FALSE
    /\ client \in {[c \in Clients |-> NewClient(IF c \in seeded THEN SeedToken(c) ELSE "")] :
                     seeded \in SUBSET Clients}
    /\ vendorTok = 0
    /\ revoke = NoRevoke
    /\ pending = NoPending

\* a thread calls create_content_metadata of its instance
InvokeConc(c) ==
    /\ client[c].life = "ready"
    /\ client[c].stack = <<>>
    /\ client[c].invocations < MaxConcInvocations
    /\ client' = Assign(c,
          [client[c] EXCEPT
             !.stack = <<NewFrame("create_content_metadata",
                                  <<[k |-> <<"courses[", "0", "][", "shortname", "]">>,
                                     v |-> "CS101"]>>, "")>>,
             !.invocations = @ + 1])
    /\ UNCHANGED <<vendorTok, encVars, viewVars>>

ConcNext ==
    \E c \in Clients :
        \/ Construct(c)
        \/ InvokeConc(c)
        \/ EnsureToken(c)
        \/ CreateContentMetadata(c)
        \/ Inspect(c)
        \/ Refresh(c)
        \/ Return(c)
        \/ Collect(c)

SpecConc == ConcInit /\ [][ConcNext]_vars

\* ------------------------------------------------ the views' specifications
RevokeInit ==
    /\ channel_metadata_items = <<>>
    /\ course_list = <<>>
    /\ prepared = FALSE
    /\ client = [c \in Clients |-> NewClient("")]
    /\ vendorTok = 0
    /\ revoke \in {NewRevoke(user_id, enterprise_id, customer_user, enrollments) :
                     user_id \in UserIds, enterprise_id \in EnterpriseIds,
                     customer_user \in BOOLEAN, enrollments \in EnrollmentLists(MaxCourses)}
    /\ pending = NoPending

RevokeNext ==
    \/ CheckPermission
    \/ Validate
    \/ GetCustomerUser
    \/ LoopCourse
    \/ RevokeDone

SpecRevoke == RevokeInit /\ [][RevokeNext]_vars

PendingInit ==
    /\ channel_metadata_items = <<>>
    /\ course_list = <<>>
    /\ prepared = FALSE
    /\ client = [c \in Clients |-> NewClient("")]
    /\ vendorTok = 0
    /\ revoke = NoRevoke
    /\ pending = NewPending

PendingNext ==
    \/ IsValid
    \/ HandleValidationError
    \/ Save

SpecPending == PendingInit /\ [][PendingNext]_vars

\* C8: every mapping the encoding returns has exactly the keys courses[i][k],
\* i the 0-based position of an item and k a field of that item, each mapped to
\* that item's value for k; so the keys of index i are the fields of item i.
WireKey(i, field) == <<"courses[", ToString(i), "][", field, "]">>

ExpectedKeys(list) ==
    UNION {{WireKey(i - 1, list[i][n].k) : n \in 1..Len(list[i])} : i \in 1..Len(list)}

EncodeExact ==
    prepared =>
        \A e \in 1..Len(course_list) :
            /\ DictKeySet(course_list[e]) = ExpectedKeys(channel_metadata_items)
            /\ Len(course_list[e]) = Cardinality(DictKeySet(course_list[e]))
            /\ \A i \in 1..Len(channel_metadata_items) :
                 \A n \in 1..Len(channel_metadata_items[i]) :
                    DictGet(course_list[e], WireKey(i - 1, channel_metadata_items[i][n].k))
                      = channel_metadata_items[i][n].v

\* the spec's scenario: [{shortname: CS101}, {shortname: CS102, fullname: Intro}]
EncodeExactWitness ==
    /\ prepared
    /\ channel_metadata_items =
         << <<[k |-> "shortname", v |-> "CS101"]>>,
            <<[k |-> "shortname", v |-> "CS102"], [k |-> "fullname", v |-> "Intro"]>> >>
    /\ Len(course_list) = 2
    /\ course_list[2] =
         << [k |-> <<"courses[", "0", "][", "shortname", "]">>, v |-> "CS101"],
            [k |-> <<"courses[", "1", "][", "shortname", "]">>, v |-> "CS102"],
            [k |-> <<"courses[", "1", "][", "fullname", "]">>, v |-> "Intro"] >>

\* ------------------------------------------------------ the client's claims
Frames(self) == {self.stack[n] : n \in 1..Len(self.stack)}

RpcRequests(self) == {n \in 1..Len(self.log) : self.log[n].kind = "rpc"}

Wstoken(request) == DictGet(request.query, <<"wstoken">>)

\* the wrapper has been handed a response whose body carries this error code
FirstErrorCode(frame) ==
    IF frame.first.type = "Response" /\ frame.first.shape = "object"
    THEN frame.first.errorcode ELSE ""

\* requests.RequestException and its subclasses, the client's authentication error
AuthenticationErrors == {"RequestException", "HTTPError", "ConnectionError"}

\* C1: one invocation of a wrapped operation executes the underlying method at
\* most twice, and a second time only when the first response's error code is
\* 'invalidtoken'; a second 'invalidtoken' response causes no third execution.
SingleRetry ==
    \A c \in Clients : \A frame \in Frames(client[c]) :
        /\ frame.calls <= 2
        /\ frame.calls = 2 => FirstErrorCode(frame) = "invalidtoken"
        /\ ~(frame.site = "retry" /\ frame.pc \in {"inspect", "refresh"})

SingleRetryWitness ==
    \E c \in Clients : \E frame \in Frames(client[c]) :
        /\ frame.pc = "returned"
        /\ frame.calls = 2
        /\ FirstErrorCode(frame) = "invalidtoken"
        /\ frame.response.errorcode = "invalidtoken"
        /\ frame.response.n > frame.first.n

RefreshedTokenUsed ==
    \A c \in Clients :
        LET self == client[c]
        IN  /\ self.issued # "" => self.token = self.issued
            /\ self.token \notin self.superseded
            /\ \A n \in RpcRequests(self) :
                  /\ self.log[n].issued # "" => Wstoken(self.log[n]) = self.log[n].issued
                  /\ Wstoken(self.log[n]) \notin self.log[n].stale

RefreshedTokenUsedWitness ==
    \E c \in Clients :
        LET self == client[c]
        IN  /\ self.invocations = 2
            /\ self.superseded # {}
            /\ \E n \in RpcRequests(self) :
                  /\ self.log[n].site = "first"
                  /\ self.log[n].stale # {}
                  /\ Wstoken(self.log[n]) = self.log[n].issued
            /\ \E n \in RpcRequests(self) :
                  /\ self.log[n].site = "retry"
                  /\ Cardinality(self.log[n].stale) = 2
                  /\ Wstoken(self.log[n]) = self.token
                  /\ self.token = self.last_exchange.answer.token

\* C5: no RPC request is sent without a cached token: whenever a wrapped method
\* is about to run or has run the client holds a token, and every RPC request
\* carries in wstoken exactly the token cached when it was sent.
TokenBeforeCall ==
    \A c \in Clients :
        LET self == client[c]
        IN  /\ \A frame \in Frames(self) :
                  frame.pc \in {"call", "loop", "inspect", "return"} => self.token # ""
            /\ \A n \in RpcRequests(self) :
                  /\ self.log[n].cached # ""
                  /\ Wstoken(self.log[n]) = self.log[n].cached

TokenBeforeCallWitness ==
    \E c \in Clients :
        LET self == client[c]
        IN  /\ self.cfg_token = ""
            /\ \E n \in RpcRequests(self) :
                  /\ self.log[n].verb = "POST"
                  /\ Wstoken(self.log[n]) = self.token
                  /\ self.token # ""

\* C6: the token exchange fails with an authentication error and yields no
\* token whenever the HTTP call fails (the transport, or an error status) or the
\* decoded body has no token field: an error body with status 200, or a body
\* that is not JSON.
NoTokenIn(answer) ==
    \/ answer.transport
    \/ answer.status >= 400
    \/ answer.shape # "object"
    \/ ~answer.has_token

ExchangeOnlyWhenNeeded ==
    \A c \in Clients :
        LET self == client[c]
        IN  /\ self.cfg_token # "" /\ ~self.invalid_seen => self.exchanges = 0
            /\ self.cfg_token = "" /\ self.life = "ready" /\ self.rpcs = 0 => self.exchanges = 1
            /\ self.cfg_token = "" /\ self.rpcs > 0 => self.exchanges_at_first_rpc = 1

ExchangeOnlyWhenNeededWitness ==
    \E c \in Clients :
        LET self == client[c]
        IN  /\ self.cfg_token # ""
            /\ self.invocations = 2
            /\ self.rpcs >= 2
            /\ ~self.invalid_seen
            /\ self.exchanges = 0
            /\ self.stack # <<>>
            /\ self.stack[1].pc = "returned"

\* C9: update_items looks up the id for the value of every key that contains
\* 'shortname', and then sends one POST with wsfunction core_course_update_courses
\* that has the keys and values of the batch and, for each such key, the key
\* with 'id' in place of 'shortname' mapped to the id the vendor answered.
ShortnameKeys(d) == {n \in 1..Len(d) : Contains(d[n].k, "shortname")}

UpdateSendsIds ==
    \A c \in Clients :
        LET self == client[c]
            frame == self.stack[1]
            lookups == {n \in RpcRequests(self) : self.log[n].verb = "GET"}
        IN  (/\ self.stack # <<>>
             /\ frame.op = "update_content_metadata"
             /\ frame.pc \in {"returned", "raised"}
             /\ lookups # {}
             /\ \A n \in lookups : self.log[n].found # "") =>
                \E p \in RpcRequests(self) :
                    LET post == self.log[p]
                    IN  /\ post.verb = "POST"
                        /\ DictHas(post.query, <<"wsfunction">>)
                        /\ DictGet(post.query, <<"wsfunction">>) = "core_course_update_courses"
                        /\ \A n \in ShortnameKeys(frame.serialized_data) :
                              \E g \in lookups :
                                 /\ g < p
                                 /\ DictGet(self.log[g].query, <<"value">>) = frame.serialized_data[n].v
                                 /\ DictHas(post.query, Replace(frame.serialized_data[n].k, "shortname", "id"))
                                 /\ DictGet(post.query, Replace(frame.serialized_data[n].k, "shortname", "id"))
                                      = self.log[g].found
                        /\ \A n \in 1..Len(frame.serialized_data) :
                              /\ DictHas(post.query, frame.serialized_data[n].k)
                              /\ DictGet(post.query, frame.serialized_data[n].k) = frame.serialized_data[n].v

\* C10: when the vendor answers the lookup with a course list that is not empty,
\* get_course_id comes back through the wrapper with the id of the first course:
\* to the caller of the client, or into update_items / delete_items, which then
\* go on to their next request.
LookupReturnsId ==
    \A c \in Clients :
        LET self == client[c]
            last == self.log[Len(self.log)]
        IN  (/\ self.life = "ready"
             /\ self.stack # <<>>
             /\ ~Running(self)
             /\ self.log # <<>>
             /\ last.verb = "GET"
             /\ last.found # "") =>
                /\ self.result.kind = "return"
                /\ self.result.value.id = last.found

\* the last request of a finished invocation
LastRequest(self) == self.log[Len(self.log)]

Finished(self) ==
    /\ self.life = "ready"
    /\ self.stack # <<>>
    /\ ~Running(self)
    /\ self.log # <<>>

\* C11: when the vendor answers a lookup with an empty course list,
\* get_course_id fails with the course-not-found error (NotFoundError), never
\* with an index fault.
LookupEmptyNotFound ==
    \A c \in Clients :
        LET self == client[c]
        IN  (/\ Finished(self)
             /\ LastRequest(self).verb = "GET"
             /\ LastRequest(self).listed = 0) =>
                /\ self.result.kind = "raise"
                /\ self.result.exc = "NotFoundError"


Lookups(self) == {n \in RpcRequests(self) : self.log[n].verb = "GET"}

RECURSIVE FoundIds(_, _)
\* the ids the vendor answered to the lookups among the first n requests
FoundIds(self, n) ==
    IF n = 0 THEN <<>>
    ELSE FoundIds(self, n - 1)
         \o (IF n \in Lookups(self) THEN <<self.log[n].found>> ELSE <<>>)

RECURSIVE CourseIds(_)
\* the values of the courseids[] parameters of a url, in order
CourseIds(url) ==
    IF Len(url) < 2 THEN <<>>
    ELSE IF Head(url) = "courseids[]=" THEN <<url[2]>> \o CourseIds(Tail(Tail(url)))
    ELSE CourseIds(Tail(url))

\* C12: delete_items looks up one id per key that contains 'shortname', in key
\* order, and then sends one POST with wsfunction core_course_delete_courses
\* whose courseids[] parameters are exactly the ids the vendor answered, in that
\* order.
DeleteSendsIds ==
    \A c \in Clients :
        LET self == client[c]
            frame == self.stack[1]
        IN  (/\ self.stack # <<>>
             /\ frame.op = "delete_content_metadata"
             /\ frame.pc \in {"returned", "raised"}
             /\ Lookups(self) # {}
             /\ \A n \in Lookups(self) : self.log[n].found # "") =>
                /\ Cardinality(Lookups(self)) = Cardinality(ShortnameKeys(frame.serialized_data))
                /\ \E p \in RpcRequests(self) :
                      LET post == self.log[p]
                      IN  /\ post.verb = "POST"
                          /\ \A g \in Lookups(self) : g < p
                          /\ DictHas(post.query, <<"wsfunction">>)
                          /\ DictGet(post.query, <<"wsfunction">>) = "core_course_delete_courses"
                          /\ CourseIds(post.url) = FoundIds(self, p)


\* C13: every request of an operation (lookup, create, update, delete) goes to
\* the configured base URL followed by /webservice/rest/server.php and has
\* wstoken, wsfunction and moodlewsrestformat=json among its query parameters.
OneEndpoint ==
    \A c \in Clients : \A n \in RpcRequests(client[c]) :
        LET request == client[c].log[n]
        IN  /\ request.url = BaseUrl \o <<MOODLE_API_PATH>>
            /\ DictHas(request.query, <<"wstoken">>)
            /\ DictHas(request.query, <<"wsfunction">>)
            /\ DictHas(request.query, <<"moodlewsrestformat">>)
            /\ DictGet(request.query, <<"moodlewsrestformat">>) = "json"


\* request carries every key and value of the mapping d
Carries(request, d) ==
    \A n \in 1..Len(d) :
        /\ DictHas(request.query, d[n].k)
        /\ DictGet(request.query, d[n].k) = d[n].v

\* C14: create_items sends a POST with wsfunction core_course_create_courses
\* that carries every key and value of the batch, and the response the vendor
\* gives to it is what the caller gets back.
CreateReturnsResponse ==
    \A c \in Clients :
        LET self == client[c]
            frame == self.stack[1]
            post == LastRequest(self)
        IN  (/\ Finished(self)
             /\ frame.op = "create_content_metadata"
             /\ post.kind = "rpc"
             /\ post.answer \notin {"", "transport"}) =>
                /\ post.verb = "POST"
                /\ DictHas(post.query, <<"wsfunction">>)
                /\ DictGet(post.query, <<"wsfunction">>) = "core_course_create_courses"
                /\ Carries(post, frame.serialized_data)
                /\ self.result.kind = "return"
                /\ self.result.value.type = "Response"
                /\ self.result.value.n = Len(self.log)


\* the query parameters of a request apart from the token
Payload(request) == SelectSeq(request.query, LAMBDA e : e.k # <<"wstoken">>)

\* two sendings of one request: same verb, same url, same parameters
SameRequest(a, b) ==
    /\ a.kind = b.kind
    /\ a.verb = b.verb
    /\ a.url = b.url
    /\ Payload(a) = Payload(b)

\* the token exchanges the wrappers of the running invocation have made
Refreshes(self) == {n \in 1..Len(self.log) : self.log[n].kind = "token" /\ self.log[n].depth >= 1}

\* C15: during one invocation of update_items or delete_items, whatever the
\* number of identifier keys of the batch, at most one token refresh is made
\* and no request, lookup or final POST, is sent more than twice.
InvocationBounded ==
    \A c \in Clients :
        LET self == client[c]
        IN  (self.stack # <<>> /\ self.stack[1].op \in LoopOps) =>
                /\ Cardinality(Refreshes(self)) <= 1
                /\ \A n \in RpcRequests(self) :
                      Cardinality({m \in RpcRequests(self) :
                                      SameRequest(self.log[m], self.log[n])}) <= 2

\* an update or delete whose POST has been resent after the one refresh
InvocationBoundedWitness ==
    \E c \in Clients :
        LET self == client[c]
        IN  /\ Finished(self)
            /\ self.stack[1].op \in LoopOps
            /\ self.stack[1].calls = 2
            /\ Cardinality(Refreshes(self)) = 1
            /\ \E n, m \in RpcRequests(self) :
                  /\ n < m
                  /\ self.log[n].verb = "POST"
                  /\ SameRequest(self.log[m], self.log[n])


\* C16: when the HTTP call of an operation fails in the transport, the failure
\* reaches the caller: that request is the last thing the invocation sends (no
\* resend, no token exchange) and the cached token is the one it was sent with.
TransportPropagates ==
    \A c \in Clients :
        LET self == client[c]
        IN  \A n \in RpcRequests(self) :
                self.log[n].answer = "transport" =>
                    /\ n = Len(self.log)
                    /\ ~Running(self)
                    /\ \A frame \in Frames(self) : frame.pc = "raised"
                    /\ self.result.kind = "raise"
                    /\ self.result.exc = "ConnectionError"
                    /\ self.token = self.log[n].cached

\* the POST of an operation failed in the transport and the caller has the error
TransportPropagatesWitness ==
    \E c \in Clients :
        LET self == client[c]
        IN  /\ Finished(self)
            /\ LastRequest(self).kind = "rpc"
            /\ LastRequest(self).verb = "POST"
            /\ LastRequest(self).answer = "transport"
            /\ self.result.exc = "ConnectionError"
            /\ self.stack[1].calls = 1
            /\ self.exchanges = 0


\* C17: two instances running concurrently share no token state: in every
\* step, the token an instance caches changes only by that instance's own
\* exchange or construction, and a request an instance sends carries the token
\* that instance had cached; so a refresh or a failed exchange of one instance
\* changes neither the token cached nor the token sent by the other.
TokensApart ==
    [][\A c \in Clients :
           LET before == client[c]
               after == client'[c]
           IN  /\ after.token # before.token =>
                     \/ after.exchanges = before.exchanges + 1
                     \/ before.life = "new"
               /\ \A n \in RpcRequests(after) :
                     n > Len(before.log) => Wstoken(after.log[n]) = before.token]_vars

\* one instance has refreshed its token and the other, in the middle of a call,
\* has sent a request with its own configured token, which it still caches
TokensApartWitness ==
    \E c, d \in Clients :
        /\ c # d
        /\ client[c].invalid_seen
        /\ client[c].superseded # {}
        /\ client[c].token = client[c].issued
        /\ client[c].last_exchange.ok
        /\ client[d].token = SeedToken(d)
        /\ client[d].exchanges = 0
        /\ Running(client[d])
        /\ Top(client[d]).pc = "inspect"
        /\ Wstoken(LastRequest(client[d])) = SeedToken(d)


\* C18: a response whose body carries no errorcode, whatever the shape of the
\* body (JSON object, JSON array, not JSON), is returned by the wrapper to the
\* caller unchanged: nothing is raised and the call is not resent.
NoErrorCodeReturned ==
    \A c \in Clients :
        LET self == client[c]
        IN  \A frame \in Frames(self) :
                (frame.first.type = "Response" /\ frame.first.errorcode = "") =>
                    /\ frame.pc # "raised"
                    /\ frame.calls = 1
                    /\ frame.pc = "returned" =>
                          /\ self.result.kind = "return"
                          /\ self.result.value = frame.first


\* the exchange the wrapper made after an 'invalidtoken' response has failed
RefreshFailed(self) ==
    /\ self.stack # <<>>
    /\ FirstErrorCode(self.stack[1]) = "invalidtoken"
    /\ self.log # <<>>
    /\ LastRequest(self).kind = "token"
    /\ LastRequest(self).depth >= 1
    /\ ~self.last_exchange.ok

\* C19: when the token exchange made after an 'invalidtoken' response fails,
\* the failure reaches the caller, the call is not sent again, and the cached
\* token is the one the client had before the attempt.
FailedRefreshKeepsToken ==
    \A c \in Clients :
        LET self == client[c]
            frame == self.stack[1]
        IN  RefreshFailed(self) =>
                /\ frame.pc = "raised"
                /\ frame.calls = 1
                /\ self.result.kind = "raise"
                /\ self.result.exc = self.last_exchange.exc
                /\ self.result.exc \in AuthenticationErrors
                /\ Cardinality(RpcRequests(self)) = 1
                /\ self.token = self.last_exchange.before
                /\ self.token = self.log[frame.first.n].cached
                /\ self.token # ""

\* the vendor rejected the token and then answered the exchange without one
FailedRefreshKeepsTokenWitness ==
    \E c \in Clients :
        LET self == client[c]
        IN  /\ RefreshFailed(self)
            /\ ~self.last_exchange.answer.transport
            /\ self.last_exchange.answer.status = 200
            /\ self.result.exc = "RequestException"
            /\ self.token = SeedToken(c)
            /\ Wstoken(self.log[1]) = SeedToken(c)


\* the POSTs of the running invocation, in the order sent
Posts(self) == {n \in RpcRequests(self) : self.log[n].verb = "POST"}

\* C20: when create_items or update_items is executed again after a token
\* refresh, the request it sends again has the same wsfunction and the same
\* courses[...] keys and values as the first one, each key once, and only its
\* wstoken is another: the refreshed token.
ResendSamePayload ==
    \A c \in Clients :
        LET self == client[c]
        IN  (self.stack # <<>>
             /\ self.stack[1].op \in {"create_content_metadata", "update_content_metadata"}) =>
                \A n, m \in Posts(self) :
                    n < m =>
                        /\ self.log[n].site = "first"
                        /\ self.log[m].site = "retry"
                        /\ self.log[m].url = self.log[n].url
                        /\ Payload(self.log[m]) = Payload(self.log[n])
                        /\ Len(self.log[m].query) = Cardinality(DictKeySet(self.log[m].query))
                        /\ Wstoken(self.log[m]) = self.log[m].issued
                        /\ Wstoken(self.log[m]) # Wstoken(self.log[n])

\* a batch with a course field has been sent a second time after the refresh
ResendSamePayloadWitness ==
    \E c \in Clients :
        LET self == client[c]
        IN  /\ self.stack # <<>>
            /\ self.stack[1].op = "create_content_metadata"
            /\ self.stack[1].calls = 2
            /\ Cardinality(Posts(self)) = 2
            /\ \A n \in Posts(self) :
                  /\ DictGet(self.log[n].query, <<"wsfunction">>) = "core_course_create_courses"
                  /\ DictHas(self.log[n].query, <<"courses[", "0", "][", "shortname", "]">>)


\* C21: for N items, _prepare_items_for_transmission returns a list of length N
\* whose entries are all the same accumulated mapping: every entry holds the
\* courses[j][k] keys of all N items, not only those of its own item.
SharedMapping ==
    prepared =>
        /\ Len(course_list) = Len(channel_metadata_items)
        /\ \A e, f \in 1..Len(course_list) : course_list[e] = course_list[f]
        /\ \A e \in 1..Len(course_list) :
              \A j \in 1..Len(channel_metadata_items) :
                 \A n \in 1..Len(channel_metadata_items[j]) :
                    /\ DictHas(course_list[e], WireKey(j - 1, channel_metadata_items[j][n].k))
                    /\ DictGet(course_list[e], WireKey(j - 1, channel_metadata_items[j][n].k))
                         = channel_metadata_items[j][n].v

\* three items: the first entry of the list holds the keys of the third item
SharedMappingWitness ==
    /\ prepared
    /\ Len(channel_metadata_items) = 3
    /\ channel_metadata_items[1] = <<[k |-> "shortname", v |-> "CS101"]>>
    /\ channel_metadata_items[3] = <<[k |-> "fullname", v |-> "Algebra"]>>
    /\ Len(course_list) = 3
    /\ DictHas(course_list[1], WireKey(2, "fullname"))
    /\ DictGet(course_list[1], WireKey(2, "fullname")) = "Algebra"
    /\ DictHas(course_list[3], WireKey(0, "shortname"))
    /\ course_list[1] = course_list[3]


\* the enrollments are as the request found them
NoEnrollmentChanged(rv) ==
    \A n \in 1..Len(rv.enrollments) :
        /\ rv.enrollments[n].is_revoked = rv.enrollments[n].was_revoked
        /\ rv.enrollments[n].saved_for_later = rv.enrollments[n].was_saved

\* C22: whenever the request data lacks user_id or enterprise_id, license_revoke
\* answers HTTP 400 with 'user_id and enterprise_id must be provided.' and
\* changes no enrollment.
MissingDataRejected ==
    (/\ revoke.pc = "done"
     /\ revoke.response.status # HTTP_403_FORBIDDEN
     /\ (revoke.user_id = "" \/ revoke.enterprise_id = "")) =>
        /\ revoke.response.status = HTTP_400_BAD_REQUEST
        /\ revoke.response.data = "user_id and enterprise_id must be provided."
        /\ NoEnrollmentChanged(revoke)


\* the request has set a flag of the enrollment
Changed(enrollment) ==
    \/ enrollment.is_revoked # enrollment.was_revoked
    \/ enrollment.saved_for_later # enrollment.was_saved

\* C23: license_revoke marks a licensed enrollment is_revoked, and its
\* enterprise enrollment saved_for_later, only if the course run is not
\* COMPLETED and the update of the LMS enrollment mode for that course has
\* succeeded in this request; a course whose update raised is not marked, the
\* request then ends with HTTP 500 and no later enrollment is processed.
RevokedOnlyAfterUpdate ==
    /\ \A n \in 1..Len(revoke.enrollments) :
          LET enrollment == revoke.enrollments[n]
          IN  Changed(enrollment) =>
                 /\ ~enrollment.completed
                 /\ enrollment.course_id \in revoke.updated
                 /\ enrollment.is_revoked
                 /\ enrollment.saved_for_later
                 /\ n < revoke.idx
    /\ revoke.failed # "" =>
          /\ revoke.pc = "done"
          /\ revoke.response.status = HTTP_500_INTERNAL_SERVER_ERROR
          /\ revoke.failed \notin revoke.updated
          /\ revoke.enrollments[revoke.idx].course_id = revoke.failed
          /\ \A n \in revoke.idx..Len(revoke.enrollments) :
                /\ ~Changed(revoke.enrollments[n])
                /\ revoke.enrollments[n].course_id \notin revoke.updated

\* the first course was updated and marked, the update of the second raised
RevokedOnlyAfterUpdateWitness ==
    /\ revoke.pc = "done"
    /\ revoke.response.status = HTTP_500_INTERNAL_SERVER_ERROR
    /\ Len(revoke.enrollments) = 2
    /\ revoke.updated = {CourseRunId(1)}
    /\ revoke.failed = CourseRunId(2)
    /\ Changed(revoke.enrollments[1])
    /\ revoke.enrollments[1].is_revoked
    /\ revoke.enrollments[1].saved_for_later
    /\ ~revoke.enrollments[2].is_revoked
    /\ ~revoke.enrollments[2].saved_for_later


\* the errors say that the record already exists
UniqueUserEmail(errors) ==
    /\ DictHas(errors, "user_email")
    /\ \E n \in 1..Len(DictGet(errors, "user_email")) :
          DictGet(errors, "user_email")[n].code = "unique"

CustomerUserExists(errors) ==
    /\ DictHas(errors, "non_field_errors")
    /\ \E n \in 1..Len(DictGet(errors, "non_field_errors")) :
          DictGet(errors, "non_field_errors")[n].string
            = "EnterpriseCustomerUser record already exists"

\* C24: create answers 201 exactly when validation passes and save reports a
\* newly created record; it answers 204 whenever the record already exists
\* (save reports nothing created, a 'unique' error on user_email, or the
\* non-field error 'EnterpriseCustomerUser record already exists'); and it
\* raises the validation error again for every other validation failure.
CreateStatus ==
    pending.pc = "done" =>
        LET exists == \/ pending.valid /\ ~pending.created
                      \/ ~pending.valid /\ UniqueUserEmail(pending.errors)
                      \/ ~pending.valid /\ CustomerUserExists(pending.errors)
        IN  /\ pending.response.status = HTTP_201_CREATED <=>
                  (pending.valid /\ pending.created)
            /\ exists => pending.response.status = HTTP_204_NO_CONTENT /\ ~pending.raised
            /\ ~pending.valid /\ ~exists =>
                  pending.raised /\ pending.response = NoResponse
            /\ pending.raised => ~pending.valid

\* the unique error comes second in the list of user_email's errors
CreateStatusWitness ==
    /\ pending.pc = "done"
    /\ ~pending.valid
    /\ DictHas(pending.errors, "user_email")
    /\ Len(DictGet(pending.errors, "user_email")) = 2
    /\ DictGet(pending.errors, "user_email")[1].code = "invalid"
    /\ DictGet(pending.errors, "user_email")[2].code = "unique"
    /\ pending.response.status = HTTP_204_NO_CONTENT

====
